---------------------------- MODULE Spec2Model ----------------------------
(***************************************************************************)
(* A model of review_pr.py: one run of main(), from the read of the six    *)
(* required settings to the exit of the process.                           *)
(*                                                                         *)
(* Text that the program splits, scans, slices or embeds (the diff, the    *)
(* prompt, the review, the comment) is a sequence of characters, one       *)
(* one-character string per character; a character that cannot be written *)
(* in a TLA+ string literal is written as its code point ("U+0060" is the  *)
(* backtick).  Text that the program only concatenates (setting names and  *)
(* values, URLs, console lines) is a TLA+ string.                          *)
(***************************************************************************)
EXTENDS Integers, Sequences, FiniteSets, TLC

(***************************************************************************)
(* Bounds of the model.                                                    *)
(***************************************************************************)
\* longest response body, in lines, drawn from DiffLines
MaxLines == 3
\* the long response bodies are up to MaxOver characters past the limit
MaxOver == 2

(***************************************************************************)
(* Python string operations used by the program.                           *)
(***************************************************************************)
\* characters removed by str.strip()
Whitespace == {" ", "\t", "\n", "\r", "\f", "U+000B"}

\* line.startswith(prefix)
StartsWith(s, prefix) ==
    /\ Len(s) >= Len(prefix)
    /\ SubSeq(s, 1, Len(prefix)) = prefix

\* sub in s
Contains(sub, s) ==
    \E i \in 1..(Len(s) - Len(sub) + 1) : SubSeq(s, i, i + Len(sub) - 1) = sub

\* s.split('\n'): the k newlines of s delimit k + 1 pieces, "" gives [""]
Split(s) ==
    LET nl == {i \in 1..Len(s) : s[i] = "\n"}
        k == Cardinality(nl)
        pos(j) == IF j = 0 THEN 0
                  ELSE IF j = k + 1 THEN Len(s) + 1
                  ELSE CHOOSE p \in nl : Cardinality({q \in nl : q < p}) = j - 1
    IN  [j \in 1..(k + 1) |-> SubSeq(s, pos(j - 1) + 1, pos(j) - 1)]

\* Join with a newline after every line instead of between the lines
RECURSIVE JoinTerminated(_)
JoinTerminated(lines) ==
    IF Len(lines) = 0 THEN <<>>
    ELSE lines[1] \o <<"\n">> \o JoinTerminated(Tail(lines))

\* '\n'.join(lines)
RECURSIVE Join(_)
Join(lines) ==
    IF Len(lines) = 0 THEN <<>>
    ELSE IF Len(lines) = 1 THEN lines[1]
    ELSE lines[1] \o <<"\n">> \o Join(Tail(lines))

RECURSIVE LStrip(_)
LStrip(s) ==
    IF Len(s) > 0 /\ s[1] \in Whitespace THEN LStrip(Tail(s)) ELSE s

RECURSIVE RStrip(_)
RStrip(s) ==
    IF Len(s) > 0 /\ s[Len(s)] \in Whitespace
    THEN RStrip(SubSeq(s, 1, Len(s) - 1))
    ELSE s

\* s.strip()
Strip(s) == RStrip(LStrip(s))

\* s[:n] for n >= 0
SliceTo(s, n) == SubSeq(s, 1, IF Len(s) < n THEN Len(s) ELSE n)

\* s * n for a console string
RECURSIVE Repeat(_, _)
Repeat(s, n) == IF n = 0 THEN "" ELSE s \o Repeat(s, n - 1)

(***************************************************************************)
(* Text constants of the program.                                          *)
(***************************************************************************)
\* the system-role message
SYSTEM_PROMPT ==
    <<"Y", "o", "u", " ", "a", "r", "e", " ", "a", " ", "s", "e", "n", "i",
      "o", "r", " ", "P", "y", "t", "h", "o", "n", " ", "e", "n", "g", "i",
      "n", "e", "e", "r", " ", "a", "n", "d", " ", "a", "n", " ", "e", "x",
      "p", "e", "r", "t", " ", "c", "o", "d", "e", " ", "r", "e", "v", "i",
      "e", "w", "e", "r", ".", " ", "Y", "o", "u", " ", "f", "o", "l", "l",
      "o", "w", " ", "P", "E", "P", "U+00A0", "8", " ", "s", "t", "y", "l", "e",
      " ", "g", "u", "i", "d", "e", "l", "i", "n", "e", "s", " ", "a", "n",
      "d", " ", "P", "y", "t", "h", "o", "n", " ", "b", "e", "s", "t", " ",
      "p", "r", "a", "c", "t", "i", "c", "e", "s", ".">>
\* CONTENT_PROMPT up to the diff
CONTENT_PROMPT_HEAD ==
    <<"W", "h", "e", "n", " ", "p", "r", "o", "v", "i", "d", "e", "d", " ",
      "w", "i", "t", "h", " ", "a", " ", "p", "u", "l", "l", " ", "r", "e",
      "q", "u", "e", "s", "t", " ", "d", "i", "f", "f", ",", " ", "y", "o",
      "u", " ", "w", "i", "l", "l", " ", "p", "e", "r", "f", "o", "r", "m",
      " ", "a", " ", "t", "h", "o", "r", "o", "u", "g", "h", " ", "c", "o",
      "d", "e", " ", "r", "e", "v", "i", "e", "w", " ", "f", "o", "c", "u",
      "s", "i", "n", "g", " ", "o", "n", ":", " ", " ", "\n", "-", " ", "C",
      "o", "d", "e", " ", "r", "e", "a", "d", "a", "b", "i", "l", "i", "t",
      "y", " ", "a", "n", "d", " ", "m", "a", "i", "n", "t", "a", "i", "n",
      "a", "b", "i", "l", "i", "t", "y", " ", " ", "\n", "-", " ", "P", "e",
      "r", "f", "o", "r", "m", "a", "n", "c", "e", " ", "a", "n", "d", " ",
      "e", "f", "f", "i", "c", "i", "e", "n", "c", "y", " ", " ", "\n", "-",
      " ", "S", "e", "c", "u", "r", "i", "t", "y", " ", "a", "n", "d", " ",
      "p", "o", "t", "e", "n", "t", "i", "a", "l", " ", "v", "u", "l", "n",
      "e", "r", "a", "b", "i", "l", "i", "t", "i", "e", "s", " ", " ", "\n",
      "-", " ", "S", "t", "y", "l", "e", " ", "c", "o", "m", "p", "l", "i",
      "a", "n", "c", "e", " ", "(", "P", "E", "P", "U+00A0", "8", " ", "a", "n",
      "d", " ", "p", "r", "o", "j", "e", "c", "t", " ", "c", "o", "n", "v",
      "e", "n", "t", "i", "o", "n", "s", ")", " ", " ", "\n", "-", " ", "C",
      "o", "r", "r", "e", "c", "t", "n", "e", "s", "s", " ", "a", "n", "d",
      " ", "l", "o", "g", "i", "c", " ", "e", "r", "r", "o", "r", "s", " ",
      " ", "\n", "\n", "P", "r", "o", "v", "i", "d", "e", " ", "f", "e", "e",
      "d", "b", "a", "c", "k", " ", "i", "n", " ", "a", " ", "s", "t", "r",
      "u", "c", "t", "u", "r", "e", "d", ",", " ", "c", "l", "e", "a", "r",
      " ", "m", "a", "n", "n", "e", "r", ".", " ", "F", "o", "r", " ", "e",
      "a", "c", "h", " ", "i", "s", "s", "u", "e", " ", "y", "o", "u", " ",
      "f", "i", "n", "d", ",", " ", "i", "d", "e", "n", "t", "i", "f", "y",
      " ", "t", "h", "e", " ", "p", "r", "o", "b", "l", "e", "m", "a", "t",
      "i", "c", " ", "c", "o", "d", "e", " ", "(", "w", "i", "t", "h", " ",
      "l", "i", "n", "e", " ", "n", "u", "m", "b", "e", "r", "s", " ", "o",
      "r", " ", "c", "o", "n", "t", "e", "x", "t", ")", ",", " ", "e", "x",
      "p", "l", "a", "i", "n", " ", "w", "h", "y", " ", "i", "t", " ", "m",
      "i", "g", "h", "t", " ", "b", "e", " ", "a", "n", " ", "i", "s", "s",
      "u", "e", ",", " ", "a", "n", "d", " ", "*", "*", "s", "u", "g", "g",
      "e", "s", "t", " ", "a", " ", "c", "o", "n", "c", "r", "e", "t", "e",
      " ", "i", "m", "p", "r", "o", "v", "e", "m", "e", "n", "t", "*", "*",
      " ", "o", "r", " ", "s", "o", "l", "u", "t", "i", "o", "n", ".", " ",
      "I", "f", " ", "c", "e", "r", "t", "a", "i", "n", " ", "c", "a", "t",
      "e", "g", "o", "r", "i", "e", "s", " ", "h", "a", "v", "e", " ", "n",
      "o", " ", "i", "s", "s", "u", "e", "s", ",", " ", "y", "o", "u", " ",
      "m", "a", "y", " ", "n", "o", "t", "e", " ", "t", "h", "a", "t", ".",
      " ", "A", "l", "w", "a", "y", "s", " ", "b", "e", " ", "*", "*", "c",
      "o", "n", "s", "t", "r", "u", "c", "t", "i", "v", "e", ",", " ", "c",
      "o", "n", "c", "i", "s", "e", ",", " ", "a", "n", "d", " ", "p", "r",
      "o", "f", "e", "s", "s", "i", "o", "n", "a", "l", "*", "*", " ", "i",
      "n", " ", "t", "o", "n", "e", ".", "\n", "\n", "O", "r", "g", "a", "n",
      "i", "z", "e", " ", "y", "o", "u", "r", " ", "r", "e", "v", "i", "e",
      "w", " ", "i", "n", " ", "s", "e", "c", "t", "i", "o", "n", "s", ",",
      " ", "f", "o", "r", " ", "e", "x", "a", "m", "p", "l", "e", ":", " ",
      " ", "\n", "1", ".", " ", "*", "*", "S", "u", "m", "m", "a", "r", "y",
      " ", "o", "f", " ", "C", "h", "a", "n", "g", "e", "s", ":", "*", "*",
      " ", "B", "r", "i", "e", "f", "l", "y", " ", "s", "u", "m", "m", "a",
      "r", "i", "z", "e", " ", "w", "h", "a", "t", " ", "t", "h", "e", " ",
      "c", "o", "d", "e", " ", "c", "h", "a", "n", "g", "e", " ", "d", "o",
      "e", "s", ".", " ", " ", "\n", "2", ".", " ", "*", "*", "I", "s", "s",
      "u", "e", "s", " ", "F", "o", "u", "n", "d", ":", "*", "*", " ", "F",
      "o", "r", " ", "e", "a", "c", "h", " ", "a", "r", "e", "a", " ", "(",
      "r", "e", "a", "d", "a", "b", "i", "l", "i", "t", "y", ",", " ", "p",
      "e", "r", "f", "o", "r", "m", "a", "n", "c", "e", ",", " ", "s", "e",
      "c", "u", "r", "i", "t", "y", ",", " ", "s", "t", "y", "l", "e", ",",
      " ", "c", "o", "r", "r", "e", "c", "t", "n", "e", "s", "s", ")", ",",
      " ", "l", "i", "s", "t", " ", "a", "n", "y", " ", "p", "r", "o", "b",
      "l", "e", "m", "s", " ", "o", "r", " ", "i", "m", "p", "r", "o", "v",
      "e", "m", "e", "n", "t", "s", ",", " ", "e", "a", "c", "h", " ", "w",
      "i", "t", "h", " ", "a", "n", " ", "e", "x", "p", "l", "a", "n", "a",
      "t", "i", "o", "n", ".", " ", "U", "s", "e", " ", "b", "u", "l", "l",
      "e", "t", " ", "p", "o", "i", "n", "t", "s", " ", "f", "o", "r", " ",
      "c", "l", "a", "r", "i", "t", "y", ".", " ", " ", "\n", "3", ".", " ",
      "*", "*", "S", "u", "g", "g", "e", "s", "t", "i", "o", "n", "s", " ",
      "f", "o", "r", " ", "I", "m", "p", "r", "o", "v", "e", "m", "e", "n",
      "t", ":", "*", "*", " ", "P", "r", "o", "v", "i", "d", "e", " ", "a",
      "c", "t", "i", "o", "n", "a", "b", "l", "e", " ", "r", "e", "c", "o",
      "m", "m", "e", "n", "d", "a", "t", "i", "o", "n", "s", " ", "o", "r",
      " ", "c", "o", "d", "e", " ", "s", "n", "i", "p", "p", "e", "t", "s",
      " ", "f", "o", "r", " ", "t", "h", "e", " ", "i", "s", "s", "u", "e",
      "s", " ", "a", "b", "o", "v", "e", " ", "(", "y", "o", "u", " ", "c",
      "a", "n", " ", "c", "o", "m", "b", "i", "n", "e", " ", "t", "h", "i",
      "s", " ", "w", "i", "t", "h", " ", "t", "h", "e", " ", "i", "s", "s",
      "u", "e", "s", " ", "i", "f", " ", "a", "p", "p", "r", "o", "p", "r",
      "i", "a", "t", "e", ",", " ", "b", "y", " ", "g", "i", "v", "i", "n",
      "g", " ", "t", "h", "e", " ", "s", "u", "g", "g", "e", "s", "t", "i",
      "o", "n", " ", "r", "i", "g", "h", "t", " ", "a", "f", "t", "e", "r",
      " ", "e", "a", "c", "h", " ", "i", "s", "s", "u", "e", "U+2019", "s", " ",
      "e", "x", "p", "l", "a", "n", "a", "t", "i", "o", "n", ")", ".", " ",
      " ", "\n", "4", ".", " ", "*", "*", "O", "v", "e", "r", "a", "l", "l",
      " ", "A", "s", "s", "e", "s", "s", "m", "e", "n", "t", ":", "*", "*",
      " ", "C", "o", "n", "c", "l", "u", "d", "e", " ", "w", "i", "t", "h",
      " ", "a", " ", "s", "h", "o", "r", "t", " ", "e", "v", "a", "l", "u",
      "a", "t", "i", "o", "n", " ", "o", "f", " ", "t", "h", "e", " ", "c",
      "o", "d", "e", "U+2019", "s", " ", "o", "v", "e", "r", "a", "l", "l", " ",
      "q", "u", "a", "l", "i", "t", "y", " ", "a", "n", "d", " ", "w", "h",
      "e", "t", "h", "e", "r", " ", "i", "t", " ", "m", "e", "e", "t", "s",
      " ", "s", "t", "a", "n", "d", "a", "r", "d", "s", ".", "\n", "5", ".",
      " ", "*", "*", "G", "r", "a", "d", "i", "n", "g", ":", "*", "*", " ",
      "P", "r", "o", "v", "i", "d", "e", " ", "a", " ", "l", "e", "t", "t",
      "e", "r", " ", "g", "r", "a", "d", "e", " ", "(", "A", "-", "F", ")",
      " ", "f", "o", "r", " ", "t", "h", "e", " ", "o", "v", "e", "r", "a",
      "l", "l", " ", "c", "o", "d", "e", " ", "q", "u", "a", "l", "i", "t",
      "y", " ", "r", "e", "g", "a", "r", "d", "i", "n", "g", " ", "t", "h",
      "e", " ", "c", "o", "d", "e", "'", "s", " ", "r", "e", "a", "d", "i",
      "n", "e", "s", "s", " ", "f", "o", "r", " ", "p", "r", "o", "d", "u",
      "c", "t", "i", "o", "n", ".", "\n", "\n", "*", "*", "U", "s", "e", "r",
      " ", "M", "e", "s", "s", "a", "g", "e", " ", "(", "C", "o", "d", "e",
      " ", "D", "i", "f", "f", " ", "I", "n", "p", "u", "t", ")", ":", "*",
      "*", " ", " ", "\n", "C", "O", "D", "E", " ", "D", "I", "F", "F", ":",
      "\n", "U+0060", "U+0060", "U+0060", "d", "i", "f", "f", "\n">>
\* CONTENT_PROMPT after the diff
CONTENT_PROMPT_TAIL == <<" ", " ", "\n", "U+0060", "U+0060", "U+0060", "\n", " ", " ", " ", " ">>
\* the comment up to the review: the heading and a blank line
COMMENT_HEAD ==
    <<"#", "#", " ", "U+1F916", " ", "A", "I", " ", "C", "o", "d", "e", " ", "R",
      "e", "v", "i", "e", "w", "\n", "\n">>
\* the comment after the review: a blank line, the rule, the footer
COMMENT_TAIL ==
    <<"\n", "\n", "-", "-", "-", "\n", "*", "A", "u", "t", "o", "m", "a", "t",
      "e", "d", " ", "r", "e", "v", "i", "e", "w", " ", "b", "y", " ", "A",
      "I", " ", "a", "s", "s", "i", "s", "t", "a", "n", "t", "*">>
\* the start of the header line of a file section
DIFF_GIT == <<"d", "i", "f", "f", " ", "-", "-", "g", "i", "t">>
\* the marker of a Python file
DOT_PY == <<".", "p", "y">>
\* str(None)
NONE_STR == <<"N", "o", "n", "e">>
\* the length the diff is cut to before it is put in the prompt
TruncLimit == 10000

\* REQUIRED with the two commit identifiers read in the other order
REQUIRED_HeadFirst ==
    <<"GITHUB_TOKEN", "OPENAI_API_KEY", "PR_NUMBER", "REPO_NAME", "HEAD_SHA",
      "BASE_SHA">>

\* the settings main reads, in the order of its get_env_var calls
REQUIRED ==
    <<"GITHUB_TOKEN", "OPENAI_API_KEY", "PR_NUMBER", "REPO_NAME", "BASE_SHA",
      "HEAD_SHA">>

\* the local variable of main each setting is bound to
LOCALS ==
    <<"github_token", "openai_key", "pr_number", "repo_name", "base_sha",
      "head_sha">>

(***************************************************************************)
(* Python values and helpers of the model.                                 *)
(***************************************************************************)
\* an Optional[str] is None or a string: a sequence of at most one string
None == <<>>
Some(s) == <<s>>

\* the text an f-string puts for a value of type Optional[str]
Format(v) == IF v = None THEN NONE_STR ELSE v[1]

\* name = value in a frame of local variables, or in a map keyed by call
Bind(f, name, value) ==
    [x \in (DOMAIN f) \cup {name} |-> IF x = name THEN value ELSE f[x]]

(***************************************************************************)
(* The pure parts of the program.                                          *)
(***************************************************************************)
\* IncludeAfter with a flag that a header without ".py" does not reset
IncludeAfterSticky(line, include) ==
    IF StartsWith(line, DIFF_GIT) THEN include \/ Contains(DOT_PY, line) ELSE include

\* the include flag after a line of the diff has been looked at
IncludeAfter(line, include) ==
    IF StartsWith(line, DIFF_GIT) THEN Contains(DOT_PY, line) ELSE include

\* the loop of get_pr_diff from line i on
RECURSIVE FilterFrom(_, _, _, _)
FilterFrom(lines, i, include, filtered) ==
    IF i > Len(lines) THEN filtered
    ELSE LET inc == IncludeAfter(lines[i], include)
         IN  FilterFrom(lines, i + 1, inc,
                        IF inc THEN Append(filtered, lines[i]) ELSE filtered)

\* what get_pr_diff returns for the text of a successful response
FilterDiff(diff) == Join(FilterFrom(Split(diff), 1, FALSE, <<>>))

\* response.raise_for_status() raises for the client and server error codes
RaisesForStatus(status) == 400 <= status /\ status < 600

\* DiffInPrompt cut one character late
DiffInPromptLate(diff) == SliceTo(diff, TruncLimit + 1)

\* the part of the diff that is put in the prompt
DiffInPrompt(diff) == SliceTo(diff, TruncLimit)

\* CONTENT_PROMPT of get_ai_review
ContentPrompt(diff) ==
    CONTENT_PROMPT_HEAD \o DiffInPrompt(diff) \o CONTENT_PROMPT_TAIL

\* Comment with the review text stripped
CommentStripped(review) == COMMENT_HEAD \o Strip(Format(review)) \o COMMENT_TAIL

\* comment of post_review_comment
Comment(review) == COMMENT_HEAD \o Format(review) \o COMMENT_TAIL

\* NoDiff testing for None instead of for blank text
NoDiffIsNone(diff) == FALSE

\* not diff.strip(), the test of main for nothing to review
NoDiff(diff) == Len(Strip(diff)) = 0

\* the diagnostic of get_env_var
NotSetMessage(name) == "Error: " \o name \o " environment variable not set"

(***************************************************************************)
(* The inputs of a run: the environment and what the three services        *)
(* answer.                                                                 *)
(***************************************************************************)
\* lines of diffs
HDR_X_PY ==
    <<"d", "i", "f", "f", " ", "-", "-", "g", "i", "t", " ", "a", "/", "x",
      ".", "p", "y", " ", "b", "/", "x", ".", "p", "y">>
HDR_Y_TXT ==
    <<"d", "i", "f", "f", " ", "-", "-", "g", "i", "t", " ", "a", "/", "y",
      ".", "t", "x", "t", " ", "b", "/", "y", ".", "t", "x", "t">>
HDR_Z_PY ==
    <<"d", "i", "f", "f", " ", "-", "-", "g", "i", "t", " ", "a", "/", "z",
      ".", "p", "y", " ", "b", "/", "z", ".", "p", "y">>
LINE_ADD == <<"+", "a">>
LINE_DEL == <<"-", "b">>
LINE_CTX ==
    <<" ", "d", "i", "f", "f", " ", "-", "-", "g", "i", "t", " ", "a", "/",
      "q", ".", "p", "y">>
\* review texts
REVIEW_LGTM == <<"L", "G", "T", "M">>
REVIEW_MD == <<"#", "#", " ", "A", "\n", "-", "-", "-", "\n">>

\* a value each setting has when it is set and not empty
SampleValue ==
    [GITHUB_TOKEN |-> "ghp_t", OPENAI_API_KEY |-> "sk-k", PR_NUMBER |-> "7",
     REPO_NAME |-> "o/r", BASE_SHA |-> "b1", HEAD_SHA |-> "h2"]

Names == {REQUIRED[i] : i \in DOMAIN REQUIRED}

\* a setting is absent, empty, or has its sample value
Environments ==
    {[n \in S |-> IF n \in E THEN "" ELSE SampleValue[n]] :
        <<S, E>> \in {p \in (SUBSET Names) \X (SUBSET Names) : p[2] \subseteq p[1]}}

DiffLines == {HDR_X_PY, HDR_Y_TXT, LINE_ADD, LINE_CTX, <<>>}

LineSeqs == UNION {[1..n -> DiffLines] : n \in 0..MaxLines}

\* three file sections, the second one not of a Python file
ThreeSections ==
    <<HDR_X_PY, LINE_ADD, HDR_Y_TXT, LINE_DEL, HDR_Z_PY, LINE_ADD, <<>> >>

FillChars == <<"+", "x", "y">>

Filler(n) == [i \in 1..n |-> FillChars[(i % 3) + 1]]

\* a diff whose lines drop are filtered out and whose filtered text has n
\* characters
LongDiff(drop, keep, n) ==
    LET head == Join(keep) \o <<"\n">>
    IN  Join(drop \o <<head \o Filler(n - Len(head))>>)

LongDiffs ==
    {LongDiff(drop, <<HDR_X_PY>>, TruncLimit + d) :
        drop \in {<<>>, <<HDR_Y_TXT, LINE_DEL>>}, d \in (-1)..MaxOver}

Bodies == {Join(ls) : ls \in LineSeqs} \cup {Join(ThreeSections)} \cup LongDiffs

ConnectionError == [err |-> TRUE, status |-> 0, text |-> <<>>]

GetResponses ==
    {[err |-> FALSE, status |-> s, text |-> b] : s \in {200, 304, 404}, b \in Bodies}
        \cup {ConnectionError}

PostResponses ==
    {[err |-> FALSE, status |-> s, text |-> <<>>] : s \in {201, 304, 422}}
        \cup {ConnectionError}

ReviewTexts == {<<>>, REVIEW_LGTM, REVIEW_MD}

\* the completion call raises, or returns a list of choices
LlmOutcomes ==
    {[err |-> TRUE, choices |-> <<>>], [err |-> FALSE, choices |-> <<>>],
     [err |-> FALSE, choices |-> <<None>>]}
        \cup {[err |-> FALSE, choices |-> <<Some(t)>>] : t \in ReviewTexts}

(***************************************************************************)
(* The state of a run.                                                     *)
(***************************************************************************)
VARIABLES
    env,         \* the process environment: setting name -> value
    pc,          \* the step of main that runs next, "exited" after the end
    frame,       \* the local variables of main that are bound
    reads,       \* the names passed to os.getenv so far
    stdout,      \* the lines printed so far
    calls,       \* the network calls issued so far, in order
    request,     \* call -> what was sent
    response,    \* call -> what came back
    raised,      \* the exception that ended the run, "" if none
    exitStatus   \* the exit status of the process, Running before the end

vars ==
    <<env, pc, frame, reads, stdout, calls, request, response, raised,
      exitStatus>>

Running == -1

Init ==
    /\ env \in Environments
    /\ pc = "get_env_var"
    /\ frame = <<>>
    /\ reads = <<>>
    /\ stdout = <<>>
    /\ calls = <<>>
    /\ request = <<>>
    /\ response = <<>>
    /\ raised = ""
    /\ exitStatus = Running

\* os.getenv(name)
Getenv(name) == IF name \in DOMAIN env THEN Some(env[name]) ELSE None

\* Not that takes only an absent setting for missing
NotAbsentOnly(value) == value = None

\* not value, for a value of type Optional[str]
Not(value) == value = None \/ value[1] = ""

\* Raise with the exception swallowed, so that the step is tried again
RaiseRetried(exc) ==
    /\ raised' = exc
    /\ UNCHANGED <<exitStatus, pc>>

\* an exception nothing catches ends the process with status 1
Raise(exc) ==
    /\ raised' = exc
    /\ exitStatus' = 1
    /\ pc' = "exited"

\* one call of get_env_var from main
GetEnvVar ==
    /\ pc = "get_env_var"
    /\ LET k == Len(reads) + 1
           name == REQUIRED[k]
           value == Getenv(name)
       IN  /\ reads' = Append(reads, name)
           /\ IF Not(value)
              THEN /\ stdout' = Append(stdout, NotSetMessage(name))
                   /\ exitStatus' = 1
                   /\ pc' = "exited"
                   /\ UNCHANGED frame
              ELSE /\ frame' = Bind(frame, LOCALS[k], value[1])
                   /\ pc' = IF k = Len(REQUIRED) THEN "banner" ELSE pc
                   /\ UNCHANGED <<stdout, exitStatus>>
    /\ UNCHANGED <<env, calls, request, response, raised>>

\* the banner main prints once the settings are read
Banner ==
    /\ pc = "banner"
    /\ stdout' = stdout \o <<Repeat("=", 60),
                             "AI Code Review - PR #" \o frame["pr_number"],
                             Repeat("=", 60)>>
    /\ pc' = "get_pr_diff"
    /\ UNCHANGED <<env, frame, reads, calls, request, response, raised,
                   exitStatus>>

GetPrDiff ==
    /\ pc = "get_pr_diff"
    /\ \E resp \in GetResponses :
        /\ stdout' = Append(stdout, "Fetching diff from GitHub...")
        /\ calls' = Append(calls, "GET")
        /\ request' = Bind(request, "GET",
              [url |-> "https://api.github.com/repos/" \o frame["repo_name"]
                          \o "/compare/" \o frame["base_sha"] \o "..."
                          \o frame["head_sha"],
               Authorization |-> "token " \o frame["github_token"],
               Accept |-> "application/vnd.github.v3.diff"])
        /\ response' = Bind(response, "GET", resp)
        /\ IF resp.err
           THEN Raise("ConnectionError") /\ UNCHANGED frame
           ELSE IF RaisesForStatus(resp.status)
           THEN Raise("HTTPError") /\ UNCHANGED frame
           ELSE /\ frame' = Bind(frame, "diff", FilterDiff(resp.text))
                /\ pc' = "check_diff"
                /\ UNCHANGED <<raised, exitStatus>>
    /\ UNCHANGED <<env, reads>>

\* if not diff.strip(): ... return
CheckDiff ==
    /\ pc = "check_diff"
    /\ IF NoDiff(frame["diff"])
       THEN /\ stdout' = Append(stdout, "No Python files changed. Skipping review.")
            /\ exitStatus' = 0
            /\ pc' = "exited"
       ELSE /\ pc' = "get_ai_review"
            /\ UNCHANGED <<stdout, exitStatus>>
    /\ UNCHANGED <<env, frame, reads, calls, request, response, raised>>

GetAiReview ==
    /\ pc = "get_ai_review"
    /\ \E out \in LlmOutcomes :
        /\ stdout' = Append(stdout, "Requesting AI review...")
        /\ calls' = Append(calls, "LLM")
        /\ request' = Bind(request, "LLM",
              [api_key |-> frame["openai_key"],
               model |-> "gpt-5-nano",
               system |-> SYSTEM_PROMPT,
               user |-> ContentPrompt(frame["diff"]),
               max_completion_tokens |-> 1500])
        /\ response' = Bind(response, "LLM", out)
        /\ IF out.err
           THEN Raise("APIError") /\ UNCHANGED frame
           ELSE IF Len(out.choices) = 0
           THEN Raise("IndexError") /\ UNCHANGED frame
           ELSE /\ frame' = Bind(frame, "review", out.choices[1])
                /\ pc' = "post_review_comment"
                /\ UNCHANGED <<raised, exitStatus>>
    /\ UNCHANGED <<env, reads>>

PostReviewComment ==
    /\ pc = "post_review_comment"
    /\ \E resp \in PostResponses :
        /\ calls' = Append(calls, "POST")
        /\ request' = Bind(request, "POST",
              [url |-> "https://api.github.com/repos/" \o frame["repo_name"]
                          \o "/issues/" \o frame["pr_number"] \o "/comments",
               Authorization |-> "token " \o frame["github_token"],
               Accept |-> "application/vnd.github.v3+json",
               body |-> Comment(frame["review"])])
        /\ response' = Bind(response, "POST", resp)
        /\ IF resp.err
           THEN /\ Raise("ConnectionError")
                /\ stdout' = Append(stdout, "Posting review comment...")
           ELSE IF RaisesForStatus(resp.status)
           THEN /\ Raise("HTTPError")
                /\ stdout' = Append(stdout, "Posting review comment...")
           ELSE /\ stdout' = stdout \o <<"Posting review comment...",
                                         "[U+2705] Review posted successfully!">>
                /\ pc' = "finish"
                /\ UNCHANGED <<raised, exitStatus>>
    /\ UNCHANGED <<env, frame, reads>>

\* the closing banner and the return of main
Finish ==
    /\ pc = "finish"
    /\ stdout' = stdout \o <<Repeat("=", 60), "Review complete!", Repeat("=", 60)>>
    /\ exitStatus' = 0
    /\ pc' = "exited"
    /\ UNCHANGED <<env, frame, reads, calls, request, response, raised>>

Next ==
    \/ GetEnvVar
    \/ Banner
    \/ GetPrDiff
    \/ CheckDiff
    \/ GetAiReview
    \/ PostReviewComment
    \/ Finish

Spec == Init /\ [][Next]_vars

(***************************************************************************)
(* Definitions the properties are stated with.                             *)
(***************************************************************************)
\* the order in which the settings are documented to be read
ReadOrder ==
    <<"GITHUB_TOKEN", "OPENAI_API_KEY", "PR_NUMBER", "REPO_NAME", "BASE_SHA",
      "HEAD_SHA">>

\* the required settings that are empty or absent in the environment
Missing ==
    {n \in {ReadOrder[i] : i \in 1..6} : n \notin DOMAIN env \/ env[n] = ""}

\* the position in ReadOrder of the first setting that is missing
FirstMissing ==
    CHOOSE i \in 1..6 :
        /\ ReadOrder[i] \in Missing
        /\ \A j \in 1..(i - 1) : ReadOrder[j] \notin Missing

Exited == pc = "exited"

Issued(call) == \E i \in 1..Len(calls) : calls[i] = call

Printed(line) == \E i \in 1..Len(stdout) : stdout[i] = line

\* the answer of a source-control endpoint is a success: a 2xx status
Is2xx(resp) == ~resp.err /\ 200 <= resp.status /\ resp.status <= 299

\* the lines of a diff text
LinesOf(text) == Split(text)

IsHeader(line) == StartsWith(line, DIFF_GIT)

\* line i of lines is in a file section whose header, the last header line
\* at or before i, contains ".py"
InPySection(lines, i) ==
    \E h \in 1..i :
        /\ IsHeader(lines[h])
        /\ Contains(DOT_PY, lines[h])
        /\ \A j \in (h + 1)..i : ~IsHeader(lines[j])

\* the lines of lines at the positions in keep, in their order
Pick(lines, keep) ==
    [k \in 1..Cardinality(keep) |->
        lines[CHOOSE i \in keep : Cardinality({j \in keep : j < i}) = k - 1]]

\* the text the filter is to give for a diff text
PySections(text) ==
    LET lines == LinesOf(text)
    IN  Join(Pick(lines, {i \in 1..Len(lines) : InPySection(lines, i)}))

\* the diff has no file section whose header contains ".py"
NoPySection(text) ==
    \A i \in 1..Len(LinesOf(text)) :
        ~(IsHeader(LinesOf(text)[i]) /\ Contains(DOT_PY, LinesOf(text)[i]))

Fetched == "diff" \in DOMAIN frame

\* the text between the fixed parts of the prompt that was sent
Embedded ==
    LET p == request["LLM"].user
    IN  SubSeq(p, Len(CONTENT_PROMPT_HEAD) + 1, Len(p) - Len(CONTENT_PROMPT_TAIL))

EndsWith(s, suffix) ==
    /\ Len(s) >= Len(suffix)
    /\ SubSeq(s, Len(s) - Len(suffix) + 1, Len(s)) = suffix

\* the model call returned a review text
ReviewReturned ==
    /\ "LLM" \in DOMAIN response
    /\ ~response["LLM"].err
    /\ Len(response["LLM"].choices) > 0

SuccessBanners ==
    {"[U+2705] Review posted successfully!", "Review complete!"}

(***************************************************************************)
(* The properties.                                                         *)
(***************************************************************************)
\* C1: when a required setting is empty or absent, the run ends with exit
\* status 1 after printing one message, which names a missing setting (the
\* missing one when only one is missing), and no network call is issued.
C1_MissingSettingExits ==
    Missing # {} =>
        /\ calls = <<>>
        /\ pc \in {"get_env_var", "exited"}
        /\ pc = "get_env_var" =>
              \A i \in 1..Len(reads) : reads[i] \notin Missing
        /\ Exited =>
              /\ exitStatus = 1
              /\ Len(stdout) = 1
              /\ \E n \in Missing : stdout[1] = NotSetMessage(n)
              /\ \A n \in Names \ Missing : stdout[1] # NotSetMessage(n)

C1_Witness ==
    /\ Exited
    /\ Cardinality(Missing) = 1
    /\ \E n \in Missing : n \in DOMAIN env /\ stdout = <<NotSetMessage(n)>>

\* C2: the filtered diff is the lines of the file sections whose header
\* contains ".py", headers included, in their order and unchanged; of three
\* sections x.py, y.txt, z.py it is the first and the third.
C2_FilterKeepsPySections ==
    Fetched =>
        /\ frame["diff"] = PySections(response["GET"].text)
        /\ response["GET"].text = Join(ThreeSections) =>
              frame["diff"] = Join(<<HDR_X_PY, LINE_ADD, HDR_Z_PY, LINE_ADD, <<>> >>)

C2_Witness ==
    /\ Fetched
    /\ response["GET"].text = Join(ThreeSections)
    /\ Len(frame["diff"]) > 0

\* C3: when the fetched diff is empty or has no file section whose header
\* contains ".py", the filtered diff is the empty string and main returns
\* with no model call and no comment POST; the model call is never made
\* with an empty diff.
C3_EmptyDiffSkipsReview ==
    /\ (Fetched /\ NoPySection(response["GET"].text)) =>
          /\ frame["diff"] = <<>>
          /\ calls = <<"GET">>
          /\ pc \in {"check_diff", "exited"}
          /\ Exited => (exitStatus = 0 /\ raised = "")
    /\ Issued("LLM") => frame["diff"] # <<>>

C3_Witness ==
    /\ Exited
    /\ Fetched
    /\ NoPySection(response["GET"].text)
    /\ Len(response["GET"].text) > 0
    /\ Printed("No Python files changed. Skipping review.")

\* C4: an answer of the compare GET or of the comment POST that is not a
\* 2xx ends the run there: after such a GET no model call and no POST is
\* issued, after such a POST the success banners are not printed.
C4_NonSuccessAborts ==
    /\ ("GET" \in DOMAIN response /\ ~Is2xx(response["GET"])) =>
          (Exited /\ exitStatus # 0 /\ ~Issued("LLM") /\ ~Issued("POST"))
    /\ ("POST" \in DOMAIN response /\ ~Is2xx(response["POST"])) =>
          (Exited /\ exitStatus # 0 /\ \A b \in SuccessBanners : ~Printed(b))

\* C5: the diff text in the prompt is the first TruncLimit characters of
\* the filtered diff when that is longer, and the whole filtered diff
\* otherwise.
C5_PromptHasDiffPrefix ==
    Issued("LLM") =>
        LET d == frame["diff"]
            p == request["LLM"].user
        IN  /\ StartsWith(p, CONTENT_PROMPT_HEAD)
            /\ EndsWith(p, CONTENT_PROMPT_TAIL)
            /\ Len(p) >= Len(CONTENT_PROMPT_HEAD) + Len(CONTENT_PROMPT_TAIL)
            /\ IF Len(d) > 10000
               THEN /\ Len(Embedded) = 10000
                    /\ \A i \in 1..10000 : Embedded[i] = d[i]
               ELSE Embedded = d

C5_Witness == Issued("LLM") /\ Len(frame["diff"]) > 10000

\* C6: the body of the comment that is posted is the heading, the review
\* text the model call returned, and the rule and footer, so the review
\* text can be read back from the body.
C6_CommentIsTemplate ==
    (Issued("POST") /\ response["LLM"].choices[1] # None) =>
        LET body == request["POST"].body
            text == response["LLM"].choices[1][1]
        IN  /\ body = COMMENT_HEAD \o text \o COMMENT_TAIL
            /\ SubSeq(body, Len(COMMENT_HEAD) + 1, Len(body) - Len(COMMENT_TAIL)) = text

C6_Witness ==
    /\ Issued("POST")
    /\ response["LLM"].choices[1] = Some(REVIEW_MD)

\* C7: filtering the filtered diff again gives the filtered diff.
C7_FilterIdempotent ==
    Fetched => FilterDiff(frame["diff"]) = frame["diff"]

C7_Witness ==
    /\ Fetched
    /\ frame["diff"] # <<>>
    /\ frame["diff"] # response["GET"].text

C7_WitnessEmpty ==
    Fetched /\ frame["diff"] = <<>> /\ response["GET"].text # <<>>

\* C8: the exit status is 0 on the two paths of normal completion and only
\* there, 1 when a setting is missing, and not 0 when the diff GET, the
\* model call or the comment POST has failed.
C8_ExitStatus ==
    Exited =>
        /\ (Printed("Review complete!")
              \/ Printed("No Python files changed. Skipping review."))
              <=> exitStatus = 0
        /\ Missing # {} => exitStatus = 1
        /\ ("GET" \in DOMAIN response /\ ~Is2xx(response["GET"])) => exitStatus # 0
        /\ ("LLM" \in DOMAIN response /\ response["LLM"].err) => exitStatus # 0
        /\ ("POST" \in DOMAIN response /\ ~Is2xx(response["POST"])) => exitStatus # 0

\* C9: the settings are read before the diff GET, the GET comes before the
\* model call and that before the comment POST, each call is issued at most
\* once, and the POST is issued only after the model call has returned a
\* review; a failed model call ends the run with no comment posted.
C9_CallOrder ==
    /\ calls = SubSeq(<<"GET", "LLM", "POST">>, 1, Len(calls))
    /\ Issued("GET") => reads = ReadOrder
    /\ Issued("LLM") => Fetched
    /\ Issued("POST") => ReviewReturned
    /\ ("LLM" \in DOMAIN response /\ ~ReviewReturned) =>
          (Exited /\ exitStatus = 1 /\ ~Issued("POST"))

C9_Witness == Exited /\ calls = <<"GET", "LLM", "POST">>

C9_WitnessLlmFails ==
    Exited /\ "LLM" \in DOMAIN response /\ response["LLM"].err

\* C10: when several settings are missing, one diagnostic is printed, for
\* the first missing setting in the read order, and no later setting is
\* read.
C10_FirstMissingReported ==
    Missing # {} =>
        /\ Len(reads) <= FirstMissing
        /\ reads = SubSeq(ReadOrder, 1, Len(reads))
        /\ Exited =>
              /\ stdout = <<NotSetMessage(ReadOrder[FirstMissing])>>
              /\ Len(reads) = FirstMissing

C10_Witness ==
    /\ Exited
    /\ Cardinality(Missing) >= 2
    /\ FirstMissing > 1
    /\ stdout = <<NotSetMessage(ReadOrder[FirstMissing])>>

=============================================================================
